---- MODULE Spec2Model ----
(***************************************************************************)
(* Model of the file-based job queue of agent/queue_manager.py             *)
(* (class QueueManager) and of the callers that drive it                   *)
(* (agent/job_processor.py, job_processing_service).                       *)
(*                                                                         *)
(* Five JSON files hold the five partitions; every file has its own file   *)
(* lock.  An operation acquires the locks it needs one after the other     *)
(* (each acquisition is a step that may time out while another process     *)
(* holds the lock), runs its read-modify-write body while it holds them,   *)
(* and releases them when it returns.                                      *)
(***************************************************************************)
EXTENDS Integers, Sequences, FiniteSets, TLC

\* ---------------------------------------------------------------- bounds
NumJobs == 2          \* job ids 1..NumJobs
MaxAdds == 2          \* add_job calls in one behaviour
MaxN    == 1          \* max_retries ranges over 0..MaxN where jobs are added
                      \* concurrently
RetryMaxN == 2        \* max_retries ranges over 0..RetryMaxN elsewhere
MaxFaults == 1        \* failed writes and deaths of processes in one behaviour

Ids == 1..NumJobs

\* ------------------------------------------------------------- processes
Workers == {"w1", "w2"}       \* job_processing_service loops
Maint == "m"                  \* caller of check_stale_processing_jobs
Producer == "p"               \* caller of add_job
Caller == "s"                 \* a single caller of the whole API
Procs == Workers \cup {Maint, Producer, Caller}
NoProc == "none"

\* ------------------------------------------------------------ partitions
Paths == {"queued", "processing", "completed", "failed", "review"}

StatusOf(path) ==
  IF path = "review" THEN "needs_review" ELSE path

Job(id, status, attempts) ==
  [id |-> id, status |-> status, attempts |-> attempts]

NoJob == Job(0, "none", 0)

\* What is stored at a path is the list of records of a well-formed file, or
\* one of two other contents, written here as lists of one marker:
\* no file at all, and bytes that json.load does not accept.
Missing == <<Job(0, "missing", 0)>>
Corrupt == <<Job(0, "corrupt", 0)>>

\* the order in which __init__ and get_queue_stats go through the files
PathOrder == <<"queued", "processing", "completed", "failed", "review">>

VARIABLES
  files,        \* path -> list of job records (the JSON file's content)
  locks,        \* path -> process holding <path>.lock, or NoProc
  pc,           \* process -> position in the operation it runs
  arg,          \* process -> arguments of the running call
  snap,         \* process -> mark_job_failed's local "job" (phase 1 copy)
  held,         \* worker -> the job its loop got from get_next_job
  stale,        \* ids returned to the maintenance caller by the stale scan
  ret,          \* the last return to the API caller: operation, value, job
  max_retries,  \* agent_settings.max_job_retries
  nadds,        \* number of add_job calls made
  track,        \* the history variables this specification records
  deqs,         \* id -> number of times get_next_job returned it (capped)
  allRetry,     \* every mark_job_failed call so far passed retry=True
  enq,          \* the ids for which add_job returned True, in order
  retried,      \* some job has been moved back to queued for a retry
  ahead,        \* id -> the ids that were in queued when it was last re-queued
                \*       and have not been returned by get_next_job since
  tmp,          \* path -> content of the temporary file <path>.tmp
  wr,           \* the _write_queue call that is running step by step
  stats,        \* the dictionary get_queue_stats is filling
  faults,       \* number of failed writes and deaths of processes so far
  now,          \* time.time()
  call,         \* the last call of the single caller, with its reason
  given,        \* id -> the result_details keys passed for it so far
  loop,         \* worker -> where its service loop is, its "job" variable
                \*           and the finalising calls made for that job
  count         \* path -> hold count of the FileLock object that the API
                \*         caller made for <path>.lock and that still exists

\* the state of the step-by-step write and of the statistics call
io == <<tmp, wr, stats, faults>>

\* the clock and the record of the calls made on full job records
detail == <<now, call, given, count>>

vars == <<files, locks, pc, arg, snap, held, stale, ret, max_retries,
          nadds, loop, track, deqs, allRetry, enq, retried, ahead, io, detail>>

\* the counters of deqs stop at DeqCap
DeqCap == RetryMaxN + 2

\* ---------------------------------------------------------------- helpers
Min(a, b) == IF a < b THEN a ELSE b

IdsOf(q) == {q[i].id : i \in 1..Len(q)}

\* (mutant: -1 for "not found" is used as an index, the last record)
IndexOf_last(q, id) ==
  IF \E i \in 1..Len(q) : q[i].id = id
  THEN CHOOSE i \in 1..Len(q) :
         q[i].id = id /\ \A k \in 1..(i - 1) : q[k].id # id
  ELSE Len(q)

\* index of the first record of q with the given id, 0 if there is none
\* (the enumerate loops of _move_job and mark_job_failed; -1 there)
IndexOf(q, id) ==
  IF \E i \in 1..Len(q) : q[i].id = id
  THEN CHOOSE i \in 1..Len(q) :
         q[i].id = id /\ \A k \in 1..(i - 1) : q[k].id # id
  ELSE 0

\* (mutant: the first record is removed, whatever the index)
Pop_first(q, i) == Tail(q)

\* list.pop(i)
Pop(q, i) == SubSeq(q, 1, i - 1) \o SubSeq(q, i + 1, Len(q))

\* _read_queue, lines 54-74: [] for a missing file and for one that does not
\* parse, the list otherwise
Parsed(content) ==
  IF content \in {Missing, Corrupt} THEN <<>> ELSE content

_read_queue(path) == Parsed(files[path])

\* add_job, line 124: the duplicate check looks at the queued file only
IsDuplicate(id, queued_jobs) == id \in IdsOf(queued_jobs)

\* (mutant: the last record is taken)
FirstJob_last(queued_jobs) == queued_jobs[Len(queued_jobs)]

\* get_next_job, line 152: queued_jobs.pop(0) returns the first record ...
FirstJob(queued_jobs) == Head(queued_jobs)

\* (mutant: the record is read but not removed)
AfterPop0_keep(queued_jobs) == queued_jobs

\* ... and leaves the others in the list
AfterPop0(queued_jobs) == Tail(queued_jobs)

\* (mutant: the attempt is counted when the job is handed out)
Started_counted(job) ==
  [job EXCEPT !.status = "processing", !.attempts = @ + 1]

\* get_next_job, lines 153-154: the record as it enters processing
Started(job) == [job EXCEPT !.status = "processing"]

\* the lock an operation acquires first
FirstLockOf(op) ==
  IF op \in {"add_job", "get_next_job"} THEN "queued" ELSE "processing"

\* (mutant: <= instead of <)
ShouldRetry_le(retry, current_attempts, max) ==
  retry /\ current_attempts <= max

\* mark_job_failed, line 247
ShouldRetry(retry, current_attempts, max) == retry /\ current_attempts < max

\* mark_job_failed, lines 248-249: the local copy that the retry move applies
RetryCopy(job, current_attempts) ==
  [job EXCEPT !.attempts = current_attempts + 1, !.status = "queued"]

\* (mutant: the retried record goes to the front)
Requeued_front(queued_jobs, retry_job) == <<retry_job>> \o queued_jobs

\* mark_job_failed, line 272: the retried record goes to the end of queued
Requeued(queued_jobs, retry_job) == Append(queued_jobs, retry_job)

\* (mutant: the status is left as it was)
Moved_sameStatus(job, new_status) == job

\* _move_job, line 202
Moved(job, new_status) == [job EXCEPT !.status = new_status]

\* _write_queue: the file is replaced by the new list
_write_queue(f, path, data) == [f EXCEPT ![path] = data]

NoArg == [op |-> "none", id |-> 0, retry |-> FALSE, dest |-> "none"]
NoRet == [op |-> "none", id |-> 0, val |-> "none", job |-> NoJob]
NoWrite == [path |-> "none", data |-> <<>>, old |-> <<>>]
NoStats == [path \in Paths |-> -2]     \* -2: no entry yet

\* details=None, and the empty dictionary: both are false in "if details:"
NoDetails == [k \in {} |-> "v"]
\* job_processing_service, lines 645-646: the top of the loop, job = None
NoLoop == [at |-> "top", job |-> NoJob, calls |-> 0]
NoCall == [op |-> "none", id |-> 0, reason |-> "none", threshold |-> 0,
           at |-> 0]

\* ------------------------------------------------------------------ locks
\* An operation's first lock is taken in the step that starts it, its last
\* lock in the step that runs its body; the positions below are those where a
\* process is between two acquisitions.
LockPcs == {"get_lock2", "mv_lock1", "mv_lock2", "fr_lock1", "fr_lock2"}

\* the lock a process waits for at a lock position
Wanted(p) ==
  CASE pc[p] = "get_lock2" -> "processing"
    [] pc[p] = "mv_lock1"  -> "processing"
    [] pc[p] = "mv_lock2"  -> arg[p].dest
    [] pc[p] = "fr_lock1"  -> "processing"
    [] pc[p] = "fr_lock2"  -> "queued"

Free(l) == locks[l] = NoProc

\* the with-blocks are left and the FileLock objects are dropped: every lock
\* the process holds is released (the hold counts are followed in SpecHold)
Released(p) == [l \in Paths |-> IF locks[l] = p THEN NoProc ELSE locks[l]]

\* what an operation returns when a lock acquisition times out
TimeoutVal(op) ==
  CASE op = "get_next_job" -> "None"
    [] op = "check_stale_processing_jobs" -> "[]"
    [] OTHER -> "False"

\* the caller gets its result and the locks of the with-blocks are released.
\* The service loop keeps only get_next_job's result, in its variable "job",
\* which it drops after the call that finalises the job (job_processor.py,
\* lines 647-688); the maintenance caller and the producer use no result but
\* the stale list; the API caller sees every result.
Return(p, op, id, val, job) ==
  /\ pc' = [pc EXCEPT ![p] = "idle"]
  /\ ret' = IF p = Caller
            THEN [op |-> op, id |-> id, val |-> val, job |-> job]
            ELSE ret
  /\ locks' = Released(p)
  /\ held' = IF p \in Workers THEN [held EXCEPT ![p] = job] ELSE held

\* the first lock of a two-lock operation is acquired, or times out
FirstLock(p, op, id, retry, dest, l, next) ==
  \/ /\ Free(l)
     /\ locks' = [locks EXCEPT ![l] = p]
     /\ pc' = [pc EXCEPT ![p] = next]
     /\ arg' = [arg EXCEPT ![p] = [op |-> op, id |-> id, retry |-> retry,
                                   dest |-> dest]]
     /\ UNCHANGED <<ret, held>>
  \/ /\ ~Free(l)
     /\ Return(p, op, id, TimeoutVal(op), NoJob)
     /\ UNCHANGED arg

\* _acquire_lock, lines 101-104, at the start of a second with-block
Acquire(p) ==
  /\ pc[p] \in {"mv_lock1", "fr_lock1"}
  /\ Free(Wanted(p))
  /\ locks' = [locks EXCEPT ![Wanted(p)] = p]
  /\ pc' = [pc EXCEPT ![p] = IF pc[p] = "mv_lock1" THEN "mv_lock2"
                                                   ELSE "fr_lock2"]
  /\ UNCHANGED <<files, arg, snap, held, stale, ret, max_retries,
                nadds, loop, track, detail, io, deqs, allRetry, enq, retried,
                ahead>>

\* (mutant: the acquisition waits without a time limit)
Timeout_never(p) ==
  /\ pc[p] \in {}
  /\ UNCHANGED vars

\* (mutant: get_next_job has taken the job out of queued before it asks for
\* the processing lock)
Timeout_dirty(p) ==
  /\ pc[p] \in LockPcs
  /\ locks[Wanted(p)] \notin {NoProc, p}
  /\ Return(p, arg[p].op, arg[p].id, TimeoutVal(arg[p].op), NoJob)
  /\ arg' = [arg EXCEPT ![p] = NoArg]
  /\ snap' = [snap EXCEPT ![p] = NoJob]
  /\ files' = IF pc[p] = "get_lock2" /\ files["queued"] # <<>>
              THEN [files EXCEPT !["queued"] = Tail(@)]
              ELSE files
  /\ UNCHANGED <<stale, max_retries, nadds, loop, track, detail, io, deqs,
                allRetry, enq, retried, ahead>>

\* _acquire_lock, lines 105-107: Timeout, possible while another process
\* holds the lock; the except clauses turn it into the operation's result
Timeout(p) ==
  /\ pc[p] \in LockPcs
  /\ locks[Wanted(p)] \notin {NoProc, p}
  /\ Return(p, arg[p].op, arg[p].id, TimeoutVal(arg[p].op), NoJob)
  /\ arg' = [arg EXCEPT ![p] = NoArg]
  /\ snap' = [snap EXCEPT ![p] = NoJob]
  /\ UNCHANGED <<files, stale, max_retries, nadds, loop, track, detail, io, deqs,
                allRetry, enq, retried, ahead>>

\* ------------------------------------------------------------- operations
\* add_job, lines 110-133: duplicate check against the queued file only
add_job(p, id) ==
  /\ pc[p] = "idle"
  /\ \/ /\ Free("queued")
        /\ LET queued_jobs == _read_queue("queued")
               job_data == Job(id, "queued", 0)
           IN IF IsDuplicate(id, queued_jobs)
              THEN /\ Return(p, "add_job", id, "False", NoJob)
                   /\ UNCHANGED <<files, enq>>
              ELSE /\ files' = _write_queue(files, "queued",
                                            Append(queued_jobs, job_data))
                   /\ enq' = IF "enq" \in track THEN Append(enq, id) ELSE enq
                   /\ Return(p, "add_job", id, "True", NoJob)
     \/ /\ ~Free("queued")
        /\ Return(p, "add_job", id, "False", NoJob)
        /\ UNCHANGED <<files, enq>>
  /\ UNCHANGED <<arg, snap, stale, max_retries, track, detail, io, deqs, allRetry,
                 retried, ahead>>

\* get_next_job, lines 141-145: the queued lock
get_next_job(p) ==
  /\ pc[p] = "idle"
  /\ FirstLock(p, "get_next_job", 0, FALSE, "none", "queued", "get_lock2")
  /\ UNCHANGED <<files, snap, max_retries, track, detail, io, deqs, allRetry,
                enq, retried, ahead>>

\* get_next_job, lines 145-164: the processing lock and the move
GetNextJobBody(p) ==
  /\ pc[p] = "get_lock2"
  /\ Free("processing")
  /\ LET queued_jobs == _read_queue("queued") IN
     IF queued_jobs = <<>>
     THEN /\ Return(p, "get_next_job", 0, "None", NoJob)
          /\ UNCHANGED <<files, deqs, ahead>>
     ELSE LET job_to_process == Started(FirstJob(queued_jobs))
              processing_jobs == Append(_read_queue("processing"),
                                        job_to_process)
          IN /\ files' = _write_queue(
                           _write_queue(files, "queued",
                                        AfterPop0(queued_jobs)),
                           "processing", processing_jobs)
             /\ deqs' = IF "deqs" \in track
                        THEN [deqs EXCEPT ![job_to_process.id] =
                                            Min(@ + 1, DeqCap)]
                        ELSE deqs
             /\ ahead' = [id \in Ids |-> ahead[id] \ {job_to_process.id}]
             /\ Return(p, "get_next_job", 0, "Job", job_to_process)
  /\ arg' = [arg EXCEPT ![p] = NoArg]
  /\ UNCHANGED <<snap, stale, max_retries, nadds, loop, track, detail, io, allRetry, enq,
                 retried>>

\* _move_job, lines 183-187, called with from_path = processing_path
_move_job(p, op, id, dest) ==
  /\ pc[p] = "idle"
  /\ FirstLock(p, op, id, FALSE, dest, "processing", "mv_lock2")
  /\ UNCHANGED <<files, snap, max_retries, track, detail, io, deqs, allRetry,
                enq, retried, ahead>>

\* _move_job, lines 187-212: the destination's lock and the move
MoveJobBody(p) ==
  /\ pc[p] = "mv_lock2"
  /\ Free(arg[p].dest)
  /\ LET from_jobs == _read_queue("processing")
         to_jobs == _read_queue(arg[p].dest)
         job_index == IndexOf(from_jobs, arg[p].id)
     IN IF job_index = 0
        THEN /\ Return(p, arg[p].op, arg[p].id, "False", NoJob)
             /\ UNCHANGED files
        ELSE LET moved_job == Moved(from_jobs[job_index],
                                    StatusOf(arg[p].dest))
             IN /\ files' = _write_queue(
                              _write_queue(files, "processing",
                                           Pop(from_jobs, job_index)),
                              arg[p].dest, Append(to_jobs, moved_job))
                /\ Return(p, arg[p].op, arg[p].id, "True", NoJob)
  /\ arg' = [arg EXCEPT ![p] = NoArg]
  /\ UNCHANGED <<snap, stale, max_retries, nadds, loop, track, detail, io, deqs,
                allRetry, enq, retried, ahead>>

\* mark_job_complete, lines 222-225
mark_job_complete(p, id) == _move_job(p, "mark_job_complete", id, "completed")

\* mark_job_needs_review, lines 292-298
mark_job_needs_review(p, id) ==
  _move_job(p, "mark_job_needs_review", id, "review")

\* mark_job_failed, lines 227-250 and 281-285: the first with-block reads the
\* job and its attempts; its lock is released before the destination is
\* decided and the move is made
mark_job_failed(p, id, retry) ==
  /\ pc[p] = "idle"
  /\ \/ /\ Free("processing")
        /\ LET processing_jobs == _read_queue("processing")
               i == IndexOf(processing_jobs, id)
           IN IF i = 0
              THEN /\ Return(p, "mark_job_failed", id, "False", NoJob)
                   /\ UNCHANGED <<snap, arg>>
              ELSE LET job == processing_jobs[i]
                       current_attempts == job.attempts
                   IN IF ShouldRetry(retry, current_attempts, max_retries)
                      THEN /\ snap' = [snap EXCEPT ![p] =
                                         RetryCopy(job, current_attempts)]
                           /\ pc' = [pc EXCEPT ![p] = "fr_lock1"]
                           /\ arg' = [arg EXCEPT ![p] =
                                        [op |-> "mark_job_failed", id |-> id,
                                         retry |-> retry, dest |-> "queued"]]
                           /\ UNCHANGED <<locks, ret, held>>
                      ELSE /\ pc' = [pc EXCEPT ![p] = "mv_lock1"]
                           /\ arg' = [arg EXCEPT ![p] =
                                        [op |-> "mark_job_failed", id |-> id,
                                         retry |-> retry, dest |-> "failed"]]
                           /\ UNCHANGED <<snap, locks, ret, held>>
     \/ /\ ~Free("processing")
        /\ Return(p, "mark_job_failed", id, "False", NoJob)
        /\ UNCHANGED <<snap, arg>>
  /\ allRetry' = IF "allRetry" \in track THEN allRetry /\ retry ELSE allRetry
  /\ UNCHANGED <<files, max_retries, track, detail, io, deqs, enq, retried,
                ahead>>

\* mark_job_failed, lines 255-276: the retry move, under both locks
FailRetryBody(p) ==
  /\ pc[p] = "fr_lock2"
  /\ Free("queued")
  /\ LET processing_jobs == _read_queue("processing")
         queued_jobs == _read_queue("queued")
         job_index == IndexOf(processing_jobs, arg[p].id)
     IN IF job_index = 0
        THEN /\ Return(p, "mark_job_failed", arg[p].id, "False", NoJob)
             /\ UNCHANGED <<files, retried, ahead>>
        ELSE LET retry_job == snap[p]   \* retry_job.update(job)
             IN /\ files' = _write_queue(
                              _write_queue(files, "processing",
                                           Pop(processing_jobs, job_index)),
                              "queued", Requeued(queued_jobs, retry_job))
                /\ retried' = ("retried" \in track)
                /\ ahead' = IF "ahead" \in track
                            THEN [ahead EXCEPT ![arg[p].id] =
                                    IdsOf(queued_jobs) \ {arg[p].id}]
                            ELSE ahead
                /\ Return(p, "mark_job_failed", arg[p].id, "True", NoJob)
  /\ snap' = [snap EXCEPT ![p] = NoJob]
  /\ arg' = [arg EXCEPT ![p] = NoArg]
  /\ UNCHANGED <<stale, max_retries, nadds, loop, track, detail, io, deqs, allRetry, enq>>

\* (mutant: the scan takes the jobs it reports out of processing)
check_stale_processing_jobs_drop(p) ==
  /\ pc[p] = "idle"
  /\ \/ /\ Free("processing")
        /\ \E stale_jobs \in SUBSET IdsOf(_read_queue("processing")) :
             /\ stale' = stale_jobs
             /\ files' = [files EXCEPT !["processing"] =
                            SelectSeq(@, LAMBDA j : j.id \notin stale_jobs)]
     \/ /\ ~Free("processing")
        /\ stale' = {}
        /\ UNCHANGED files
  /\ Return(p, "check_stale_processing_jobs", 0, "[]", NoJob)
  /\ UNCHANGED <<arg, snap, max_retries, track, detail, io, deqs,
                 allRetry, enq, retried, ahead>>

\* check_stale_processing_jobs, lines 325-340: the ids of the processing
\* records whose age exceeds the threshold; the clock is not modelled, so any
\* record of the file may be old enough
check_stale_processing_jobs(p) ==
  /\ pc[p] = "idle"
  /\ \/ /\ Free("processing")
        /\ \E stale_jobs \in SUBSET IdsOf(_read_queue("processing")) :
             stale' = stale_jobs
     \/ /\ ~Free("processing")
        /\ stale' = {}
  /\ Return(p, "check_stale_processing_jobs", 0, "[]", NoJob)
  /\ UNCHANGED <<files, arg, snap, max_retries, track, detail, io, deqs,
                allRetry, enq, retried, ahead>>

\* get_queue_stats, lines 301-323: the files are visited in the order of the
\* dictionary; each one is locked (timeout 1 s), read and counted, and
\* unlocked again
PathIndex(path) == CHOOSE i \in 1..Len(PathOrder) : PathOrder[i] = path

\* the loop goes on with the next file, or the dictionary is returned (and
\* kept here only where the specification records it)
StatsAdvance(p, path, newstats) ==
  IF PathIndex(path) = Len(PathOrder)
  THEN /\ pc' = [pc EXCEPT ![p] = "idle"]
       /\ arg' = [arg EXCEPT ![p] = NoArg]
       /\ stats' = IF "stats" \in track THEN newstats ELSE NoStats
  ELSE /\ stats' = newstats
       /\ pc' = [pc EXCEPT ![p] = "st_lock"]
       /\ arg' = [arg EXCEPT ![p] =
                    [op |-> "get_queue_stats", id |-> 0, retry |-> FALSE,
                     dest |-> PathOrder[PathIndex(path) + 1]]]

get_queue_stats(p) ==
  /\ pc[p] = "idle"
  /\ pc' = [pc EXCEPT ![p] = "st_lock"]
  /\ arg' = [arg EXCEPT ![p] =
               [op |-> "get_queue_stats", id |-> 0, retry |-> FALSE,
                dest |-> PathOrder[1]]]
  /\ stats' = NoStats
  /\ UNCHANGED <<files, locks, snap, held, stale, ret, max_retries, nadds, loop,
                 track, detail, deqs, allRetry, enq, retried, ahead, tmp, wr, faults>>

\* (mutant: a file whose lock is not acquired is reported as empty)
StatsLock_zero(p) ==
  /\ pc[p] = "st_lock"
  /\ IF Free(arg[p].dest)
     THEN /\ locks' = [locks EXCEPT ![arg[p].dest] = p]
          /\ pc' = [pc EXCEPT ![p] = "st_read"]
          /\ UNCHANGED <<arg, stats>>
     ELSE /\ StatsAdvance(p, arg[p].dest,
                          [stats EXCEPT ![arg[p].dest] = 0])
          /\ UNCHANGED locks
  /\ UNCHANGED <<files, snap, held, stale, ret, max_retries, nadds, loop,
                 track, detail, deqs, allRetry, enq, retried, ahead, tmp, wr, faults>>

\* line 314: the lock is acquired, or Timeout gives -1 (lines 317-319)
StatsLock(p) ==
  /\ pc[p] = "st_lock"
  /\ IF Free(arg[p].dest)
     THEN /\ locks' = [locks EXCEPT ![arg[p].dest] = p]
          /\ pc' = [pc EXCEPT ![p] = "st_read"]
          /\ UNCHANGED <<arg, stats>>
     ELSE /\ StatsAdvance(p, arg[p].dest,
                          [stats EXCEPT ![arg[p].dest] = -1])
          /\ UNCHANGED locks
  /\ UNCHANGED <<files, snap, held, stale, ret, max_retries, nadds, loop,
                 track, detail, deqs, allRetry, enq, retried, ahead, tmp, wr, faults>>

\* lines 315-316: the file is read and counted; the with-block releases the
\* lock
StatsRead(p) ==
  /\ pc[p] = "st_read"
  /\ StatsAdvance(p, arg[p].dest,
                  [stats EXCEPT ![arg[p].dest] =
                                  Len(_read_queue(arg[p].dest))])
  /\ locks' = Released(p)
  /\ UNCHANGED <<files, snap, held, stale, ret, max_retries, nadds, loop,
                 track, detail, deqs, allRetry, enq, retried, ahead, tmp, wr, faults>>

\* ---------------------------------------------------------------- callers
\* job_processing_service, line 650: the loop asks for the next job
WorkerGetNext(w) ==
  /\ held[w] = NoJob
  /\ get_next_job(w)
  /\ UNCHANGED <<stale, nadds, loop>>

\* job_processing_service, lines 664-666: process_job succeeded
WorkerComplete(w) ==
  /\ held[w] # NoJob
  /\ mark_job_complete(w, held[w].id)
  /\ UNCHANGED <<stale, nadds, loop>>

\* job_processing_service, lines 679-683
WorkerReview(w) ==
  /\ held[w] # NoJob
  /\ mark_job_needs_review(w, held[w].id)
  /\ UNCHANGED <<stale, nadds, loop>>

\* job_processing_service, lines 686-688, 701 and 709: a failure, with
\* retry = should_retry or retry = True
WorkerFail(w) ==
  /\ held[w] # NoJob
  /\ \E retry \in {held[w].attempts < max_retries, TRUE} :
       mark_job_failed(w, held[w].id, retry)
  /\ UNCHANGED <<stale, nadds, loop>>

\* the producer (scraper or driver) enqueues a job under any id
ProducerAdd(p) ==
  /\ nadds < MaxAdds
  /\ nadds' = nadds + 1
  /\ \E id \in Ids : add_job(p, id)
  /\ UNCHANGED loop

\* the maintenance caller scans for stale jobs ...
MaintScan(m) ==
  /\ stale = {}
  /\ check_stale_processing_jobs(m)
  /\ UNCHANGED <<nadds, loop>>

\* ... and fails every job the scan returned, asking for a retry
MaintFail(m) ==
  \E id \in stale :
    /\ mark_job_failed(m, id, TRUE)
    /\ stale' = stale \ {id}
    /\ UNCHANGED <<nadds, loop>>

\* ---------------------------------------------------------- specification
EmptyFiles == [path \in Paths |-> <<>>]

\* no call is running, nothing is recorded yet
InitCalls(maxN) ==
  /\ locks = [l \in Paths |-> NoProc]
  /\ pc = [p \in Procs |-> "idle"]
  /\ arg = [p \in Procs |-> NoArg]
  /\ snap = [p \in Procs |-> NoJob]
  /\ held = [w \in Workers |-> NoJob]
  /\ stale = {}
  /\ ret = NoRet
  /\ max_retries \in 0..maxN
  /\ nadds = 0
  /\ deqs = [id \in Ids |-> 0]
  /\ allRetry = TRUE
  /\ retried = FALSE
  /\ ahead = [id \in Ids |-> {}]
  /\ tmp = [path \in Paths |-> Missing]
  /\ wr = NoWrite
  /\ stats = NoStats
  /\ faults = 0
  /\ now = 1
  /\ call = NoCall
  /\ given = [id \in Ids |-> {}]
  /\ loop = [w \in Workers |-> NoLoop]
  /\ count = [l \in Paths |-> 0]

InitLocal(maxN) ==
  /\ InitCalls(maxN)
  /\ enq = <<>>

\* __init__, lines 35-37: every queue file is created empty
Init ==
  /\ files = EmptyFiles
  /\ track = {}
  /\ InitLocal(MaxN)

Step(p) ==
  \/ Acquire(p)
  \/ Timeout(p)
  \/ GetNextJobBody(p)
  \/ MoveJobBody(p)
  \/ FailRetryBody(p)

Next ==
  \/ \E p \in Workers \cup {Maint} : Step(p)
  \/ \E w \in Workers : WorkerGetNext(w)
  \/ \E w \in Workers : WorkerComplete(w)
  \/ \E w \in Workers : WorkerReview(w)
  \/ \E w \in Workers : WorkerFail(w)
  \/ ProducerAdd(Producer)
  \/ MaintScan(Maint)
  \/ MaintFail(Maint)

Spec == Init /\ [][Next]_vars

\* The queued file after add_job calls with distinct ids: every ordering of
\* every set of ids
RECURSIVE Orders(_)
Orders(S) ==
  IF S = {} THEN {<<>>}
  ELSE UNION {{<<id>> \o o : o \in Orders(S \ {id})} : id \in S}

QueuedFiles ==
  {[EmptyFiles EXCEPT !["queued"] =
      [i \in 1..Len(o) |-> Job(o[i], "queued", 0)]] :
     o \in UNION {Orders(S) : S \in SUBSET Ids}}

\* Workers and the maintenance caller on a queue that holds distinct jobs; no
\* job is added meanwhile
InitWM ==
  /\ files \in QueuedFiles
  /\ track = {"deqs", "allRetry"}
  /\ InitLocal(RetryMaxN)

NextWM ==
  \/ \E p \in Workers \cup {Maint} : Step(p)
  \/ \E w \in Workers : WorkerGetNext(w)
  \/ \E w \in Workers : WorkerComplete(w)
  \/ \E w \in Workers : WorkerReview(w)
  \/ \E w \in Workers : WorkerFail(w)
  \/ MaintScan(Maint)
  \/ MaintFail(Maint)

SpecWM == InitWM /\ [][NextWM]_vars

\* Workers that only call get_next_job, on a queue that holds distinct jobs
PollGetNext(w) ==
  /\ get_next_job(w)
  /\ UNCHANGED <<stale, nadds, loop>>

InitDeq ==
  /\ files \in QueuedFiles
  /\ track = {"deqs"}
  /\ InitLocal(RetryMaxN)

NextDeq ==
  \/ \E w \in Workers : PollGetNext(w)
  \/ \E w \in Workers : GetNextJobBody(w)

SpecDeq == InitDeq /\ [][NextDeq]_vars

\* One caller that uses the whole API, one call after the other
CallAdd(p) ==
  /\ nadds < MaxAdds
  /\ nadds' = nadds + 1
  /\ \E id \in Ids : add_job(p, id)
  /\ UNCHANGED loop

CallGetNext(p) ==
  /\ get_next_job(p)
  /\ UNCHANGED <<stale, nadds, loop>>

CallComplete(p) ==
  /\ \E id \in Ids : mark_job_complete(p, id)
  /\ UNCHANGED <<stale, nadds, loop>>

CallReview(p) ==
  /\ \E id \in Ids : mark_job_needs_review(p, id)
  /\ UNCHANGED <<stale, nadds, loop>>

CallFail(p) ==
  /\ \E id \in Ids, retry \in BOOLEAN : mark_job_failed(p, id, retry)
  /\ UNCHANGED <<stale, nadds, loop>>

InitSeq ==
  /\ files = EmptyFiles
  /\ track = {"deqs", "allRetry", "enq", "retried", "ahead"}
  /\ InitLocal(RetryMaxN)

NextSeq ==
  \/ CallAdd(Caller)
  \/ CallGetNext(Caller)
  \/ CallComplete(Caller)
  \/ CallReview(Caller)
  \/ CallFail(Caller)
  \/ Acquire(Caller)
  \/ GetNextJobBody(Caller)
  \/ MoveJobBody(Caller)
  \/ FailRetryBody(Caller)

SpecSeq == InitSeq /\ [][NextSeq]_vars

\* One caller that uses the whole API while the maintenance caller collects
\* statistics
InitStats ==
  /\ files = EmptyFiles
  /\ track = {}
  /\ InitLocal(MaxN)
  /\ max_retries = MaxN

NextStats ==
  \/ NextSeq
  \/ Timeout(Caller)
  \/ get_queue_stats(Maint)
  \/ StatsLock(Maint)
  \/ StatsRead(Maint)

SpecStats == InitStats /\ [][NextStats]_vars

\* Workers and a maintenance caller that collects statistics, on a queue
\* that holds every job.  A process goes on running once it is inside a call:
\* an acquisition returns the lock or raises Timeout when lock_timeout has
\* passed
InitLive ==
  /\ files = [EmptyFiles EXCEPT !["queued"] =
                [i \in 1..NumJobs |-> Job(i, "queued", 0)]]
  /\ track = {}
  /\ InitLocal(MaxN)
  /\ max_retries = MaxN

NextLive ==
  \/ \E w \in Workers : Step(w)
  \/ \E w \in Workers : WorkerGetNext(w)
  \/ \E w \in Workers : WorkerComplete(w)
  \/ \E w \in Workers : WorkerReview(w)
  \/ \E w \in Workers : WorkerFail(w)
  \/ get_queue_stats(Maint)
  \/ StatsLock(Maint)
  \/ StatsRead(Maint)

Fairness ==
  /\ \A w \in Workers : WF_vars(Step(w))
  /\ WF_vars(StatsLock(Maint) \/ StatsRead(Maint))

SpecLive == InitLive /\ [][NextLive]_vars /\ Fairness

\* job_processing_service, lines 645-692: the loop never ends by itself; a
\* worker that is in no call makes its next call
ServiceFairness ==
  \A w \in Workers :
    WF_vars(WorkerGetNext(w) \/ WorkerComplete(w) \/ WorkerReview(w)
              \/ WorkerFail(w))

SpecServe == InitLive /\ [][NextLive]_vars /\ Fairness /\ ServiceFairness

\* One worker of the service, and a monitor that asks for the statistics and
\* scans for stale jobs while the worker is inside its calls
CallScan(p) ==
  /\ check_stale_processing_jobs(p)
  /\ UNCHANGED <<nadds, loop>>

InitMon ==
  /\ files = [EmptyFiles EXCEPT !["queued"] =
                [i \in 1..NumJobs |-> Job(i, "queued", 0)]]
  /\ track = {"stats"}
  /\ InitLocal(MaxN)
  /\ max_retries = MaxN

NextMon ==
  \/ Step("w1")
  \/ WorkerGetNext("w1")
  \/ WorkerComplete("w1")
  \/ WorkerReview("w1")
  \/ WorkerFail("w1")
  \/ get_queue_stats(Maint)
  \/ StatsLock(Maint)
  \/ StatsRead(Maint)
  \/ CallScan(Maint)

SpecMon == InitMon /\ [][NextMon]_vars

\* ------------------------------------------------- the service loop
\* job_processing_service, lines 645-712, line by line: the variable "job" of
\* the loop lives until the top of the next iteration, and an exception or a
\* KeyboardInterrupt is handled with the job the variable holds then.

\* line 650: job = queue_manager.get_next_job()
LoopGet(w) ==
  /\ loop[w].at = "top"
  /\ get_next_job(w)
  /\ loop' = [loop EXCEPT ![w].at = "get"]
  /\ UNCHANGED <<stale, nadds>>

\* lines 652-661: no job, sleep and continue; or process_job is started
LoopGot(w) ==
  /\ loop[w].at = "get"
  /\ pc[w] = "idle"
  /\ loop' = [loop EXCEPT ![w] =
                IF held[w] = NoJob
                THEN NoLoop
                ELSE [at |-> "process", job |-> held[w], calls |-> 0]]
  /\ UNCHANGED <<files, locks, pc, arg, snap, held, stale, ret, max_retries,
                 nadds, track, deqs, allRetry, enq, retried, ahead, io,
                 detail>>

\* the call that follows process_job has been made
LoopCalled(w) ==
  loop' = [loop EXCEPT ![w].at = "called", ![w].calls = @ + 1]

\* lines 664-666
LoopComplete(w) ==
  /\ loop[w].at = "process"
  /\ mark_job_complete(w, loop[w].job.id)
  /\ LoopCalled(w)
  /\ UNCHANGED <<stale, nadds>>

\* lines 678-683
LoopReview(w) ==
  /\ loop[w].at = "process"
  /\ mark_job_needs_review(w, loop[w].job.id)
  /\ LoopCalled(w)
  /\ UNCHANGED <<stale, nadds>>

\* lines 686-688: should_retry = job.get('attempts', 0) < max_retries
LoopFail(w) ==
  /\ loop[w].at = "process"
  /\ mark_job_failed(w, loop[w].job.id, loop[w].job.attempts < max_retries)
  /\ LoopCalled(w)
  /\ UNCHANGED <<stale, nadds>>

\* lines 703-712: an exception of process_job or of the lines after it
LoopError(w) ==
  /\ loop[w].at = "process"
  /\ mark_job_failed(w, loop[w].job.id, TRUE)
  /\ LoopCalled(w)
  /\ UNCHANGED <<stale, nadds>>

\* lines 690-692 and 645-646: the call has returned, the loop sleeps and
\* starts over with job = None
LoopNext(w) ==
  /\ loop[w].at = "called"
  /\ pc[w] = "idle"
  /\ loop' = [loop EXCEPT ![w] = NoLoop]
  /\ UNCHANGED <<files, locks, pc, arg, snap, held, stale, ret, max_retries,
                 nadds, track, deqs, allRetry, enq, retried, ahead, io,
                 detail>>

\* lines 694-701: KeyboardInterrupt while the loop runs with a job in its
\* variable, during process_job or in the lines after the finalising call
LoopInterrupt(w) ==
  /\ loop[w].at \in {"process", "called"}
  /\ pc[w] = "idle"
  /\ mark_job_failed(w, loop[w].job.id, TRUE)
  /\ loop' = [loop EXCEPT ![w].at = "stopped", ![w].calls = @ + 1]
  /\ UNCHANGED <<stale, nadds>>

\* lines 694-697: KeyboardInterrupt with job = None
LoopStop(w) ==
  /\ loop[w].at = "top"
  /\ loop' = [loop EXCEPT ![w].at = "stopped"]
  /\ UNCHANGED <<files, locks, pc, arg, snap, held, stale, ret, max_retries,
                 nadds, track, deqs, allRetry, enq, retried, ahead, io,
                 detail>>

InitLoop ==
  /\ files = [EmptyFiles EXCEPT !["queued"] =
                [i \in 1..NumJobs |-> Job(i, "queued", 0)]]
  /\ track = {}
  /\ InitLocal(MaxN)
  /\ max_retries = MaxN

NextLoop ==
  \/ \E w \in Workers : Step(w)
  \/ \E w \in Workers : LoopGet(w)
  \/ \E w \in Workers : LoopGot(w)
  \/ \E w \in Workers : LoopComplete(w)
  \/ \E w \in Workers : LoopReview(w)
  \/ \E w \in Workers : LoopFail(w)
  \/ \E w \in Workers : LoopError(w)
  \/ \E w \in Workers : LoopNext(w)
  \/ \E w \in Workers : LoopInterrupt(w)
  \/ \E w \in Workers : LoopStop(w)

SpecLoop == InitLoop /\ [][NextLoop]_vars

\* ------------------------------------------------- FileLock hold counts
\* The calls of one caller with the hold count of each FileLock object.
\* _acquire_lock makes the object and calls lock.acquire() (lines 101-104),
\* the with statement then calls __enter__, which acquires the same object
\* once more, and leaves through __exit__, one release. FileLock counts its
\* acquisitions and lets go of the file when the count comes to 0, or when the
\* object is finalized. When that happens after the last reference is gone is
\* up to the interpreter.

\* the locks a call takes, in the order of its with statement
LocksOf(op, dest) ==
  CASE op = "add_job" -> <<"queued">>
    [] op = "get_next_job" -> <<"queued", "processing">>
    [] OTHER -> <<"processing", dest>>

\* the first lock of the running call that is not acquired yet, "none" when
\* the with statement has them all
NextLock(p) ==
  LET ls == LocksOf(arg[p].op, arg[p].dest)
      todo == {i \in 1..Len(ls) : count[ls[i]] # 2}
  IN IF todo = {} THEN "none"
     ELSE ls[CHOOSE i \in todo : \A k \in todo : i <= k]

\* __exit__ of every lock the with statement has entered: one release each
Exited == [l \in Paths |-> IF count[l] = 2 THEN 1 ELSE count[l]]

\* what the holding calls do not touch
holdrest == <<snap, held, stale, max_retries, loop, track, deqs, allRetry,
              enq, retried, ahead, io, now, call, given>>

\* the caller starts add_job, get_next_job, mark_job_complete or
\* mark_job_needs_review
HoldCall(p) ==
  /\ pc[p] = "idle"
  /\ \E op \in {"add_job", "get_next_job", "mark_job_complete",
                "mark_job_needs_review"}, id \in Ids :
       /\ op = "add_job" => nadds < MaxAdds
       /\ nadds' = IF op = "add_job" THEN nadds + 1 ELSE nadds
       /\ arg' = [arg EXCEPT ![p] =
                    [op |-> op,
                     id |-> IF op = "get_next_job" THEN 0 ELSE id,
                     retry |-> FALSE,
                     dest |-> CASE op = "mark_job_complete" -> "completed"
                                [] op = "mark_job_needs_review" -> "review"
                                [] OTHER -> "none"]]
  /\ pc' = [pc EXCEPT ![p] = "hold"]
  /\ UNCHANGED <<files, locks, ret, count, holdrest>>

\* _acquire_lock, lines 101-104, and __enter__: the file is locked and the
\* object's count is 2
HoldAcquire(p) ==
  /\ pc[p] = "hold"
  /\ NextLock(p) # "none"
  /\ Free(NextLock(p))
  /\ locks' = [locks EXCEPT ![NextLock(p)] = p]
  /\ count' = [count EXCEPT ![NextLock(p)] = 2]
  /\ UNCHANGED <<files, pc, arg, ret, nadds, holdrest>>

\* _acquire_lock, lines 105-107: the file is locked by an object of an earlier
\* call that still exists; Timeout leaves the with statement
HoldTimeout(p) ==
  /\ pc[p] = "hold"
  /\ NextLock(p) # "none"
  /\ ~Free(NextLock(p))
  /\ count' = Exited
  /\ pc' = [pc EXCEPT ![p] = "idle"]
  /\ ret' = [op |-> arg[p].op, id |-> arg[p].id,
             val |-> TimeoutVal(arg[p].op), job |-> NoJob]
  /\ arg' = [arg EXCEPT ![p] = NoArg]
  /\ UNCHANGED <<files, locks, nadds, holdrest>>

\* the body of the with statement, and __exit__
HoldBody(p) ==
  /\ pc[p] = "hold"
  /\ NextLock(p) = "none"
  /\ LET op == arg[p].op
         id == arg[p].id
         queued_jobs == _read_queue("queued")
         from_jobs == _read_queue("processing")
         job_index == IndexOf(from_jobs, id)
     IN CASE op = "add_job" ->
               IF IsDuplicate(id, queued_jobs)
               THEN /\ UNCHANGED files
                    /\ ret' = [op |-> op, id |-> id, val |-> "False",
                               job |-> NoJob]
               ELSE /\ files' = _write_queue(files, "queued",
                                  Append(queued_jobs, Job(id, "queued", 0)))
                    /\ ret' = [op |-> op, id |-> id, val |-> "True",
                               job |-> NoJob]
          [] op = "get_next_job" ->
               IF queued_jobs = <<>>
               THEN /\ UNCHANGED files
                    /\ ret' = [op |-> op, id |-> 0, val |-> "None",
                               job |-> NoJob]
               ELSE /\ files' = _write_queue(
                                  _write_queue(files, "queued",
                                               AfterPop0(queued_jobs)),
                                  "processing",
                                  Append(from_jobs,
                                         Started(FirstJob(queued_jobs))))
                    /\ ret' = [op |-> op, id |-> 0, val |-> "Job",
                               job |-> Started(FirstJob(queued_jobs))]
          [] OTHER ->
               IF job_index = 0
               THEN /\ UNCHANGED files
                    /\ ret' = [op |-> op, id |-> id, val |-> "False",
                               job |-> NoJob]
               ELSE /\ files' = _write_queue(
                                  _write_queue(files, "processing",
                                               Pop(from_jobs, job_index)),
                                  arg[p].dest,
                                  Append(_read_queue(arg[p].dest),
                                         Moved(from_jobs[job_index],
                                               StatusOf(arg[p].dest))))
                    /\ ret' = [op |-> op, id |-> id, val |-> "True",
                               job |-> NoJob]
  /\ count' = Exited
  /\ pc' = [pc EXCEPT ![p] = "idle"]
  /\ arg' = [arg EXCEPT ![p] = NoArg]
  /\ UNCHANGED <<locks, nadds, holdrest>>

\* the interpreter finalizes a FileLock object that the with statement has
\* left: __del__ releases the file whatever the count is
Finalize(l) ==
  /\ count[l] = 1
  /\ count' = [count EXCEPT ![l] = 0]
  /\ locks' = [locks EXCEPT ![l] = NoProc]
  /\ UNCHANGED <<files, pc, arg, ret, nadds, holdrest>>

InitHold ==
  /\ files = EmptyFiles
  /\ track = {}
  /\ InitLocal(MaxN)
  /\ max_retries = MaxN

NextHold ==
  \/ HoldCall(Caller)
  \/ HoldAcquire(Caller)
  \/ HoldTimeout(Caller)
  \/ HoldBody(Caller)
  \/ \E l \in Paths : Finalize(l)

SpecHold == InitHold /\ [][NextHold]_vars

\* ------------------------------------------------------------- __init__
\* lines 35-37: the loop of __init__ comes to the next file, or is done
CtorAdvance(p, path) ==
  IF PathIndex(path) = Len(PathOrder)
  THEN /\ pc' = [pc EXCEPT ![p] = "idle"]
       /\ arg' = [arg EXCEPT ![p] = NoArg]
  ELSE /\ pc' = [pc EXCEPT ![p] = "ctor_check"]
       /\ arg' = [arg EXCEPT ![p] =
                    [op |-> "__init__", id |-> 0, retry |-> FALSE,
                     dest |-> PathOrder[PathIndex(path) + 1]]]

\* line 36: os.path.exists(path)
CtorCheck(p) ==
  /\ pc[p] = "ctor_check"
  /\ IF files[arg[p].dest] = Missing
     THEN /\ pc' = [pc EXCEPT ![p] = "ctor_write"]
          /\ UNCHANGED arg
     ELSE CtorAdvance(p, arg[p].dest)
  /\ UNCHANGED <<files, locks, snap, held, stale, ret, max_retries, nadds, loop,
                 track, detail, io, deqs, allRetry, enq, retried, ahead>>

\* line 37: self._write_queue(path, []); no lock exists yet (lines 40-44)
CtorWrite(p) ==
  /\ pc[p] = "ctor_write"
  /\ files' = _write_queue(files, arg[p].dest, <<>>)
  /\ CtorAdvance(p, arg[p].dest)
  /\ UNCHANGED <<locks, snap, held, stale, ret, max_retries, nadds, loop,
                 track, detail, io, deqs, allRetry, enq, retried, ahead>>

\* Two processes start on an empty queue directory: a producer and a process
\* that takes jobs and finalises them; each constructs its QueueManager
\* first
InitCtor ==
  /\ files = [path \in Paths |-> Missing]
  /\ track = {}
  /\ locks = [l \in Paths |-> NoProc]
  /\ pc = [p \in Procs |->
             IF p \in {Producer, Caller} THEN "ctor_check" ELSE "idle"]
  /\ arg = [p \in Procs |->
              IF p \in {Producer, Caller}
              THEN [op |-> "__init__", id |-> 0, retry |-> FALSE,
                    dest |-> PathOrder[1]]
              ELSE NoArg]
  /\ snap = [p \in Procs |-> NoJob]
  /\ held = [w \in Workers |-> NoJob]
  /\ stale = {}
  /\ ret = NoRet
  /\ max_retries = MaxN
  /\ nadds = 0
  /\ deqs = [id \in Ids |-> 0]
  /\ allRetry = TRUE
  /\ retried = FALSE
  /\ ahead = [id \in Ids |-> {}]
  /\ enq = <<>>
  /\ tmp = [path \in Paths |-> Missing]
  /\ wr = NoWrite
  /\ stats = NoStats
  /\ faults = 0
  /\ now = 1
  /\ call = NoCall
  /\ given = [id \in Ids |-> {}]
  /\ loop = [w \in Workers |-> NoLoop]
  /\ count = [l \in Paths |-> 0]

NextCtor ==
  \/ \E p \in {Producer, Caller} : CtorCheck(p)
  \/ \E p \in {Producer, Caller} : CtorWrite(p)
  \/ ProducerAdd(Producer)
  \/ CallGetNext(Caller)
  \/ CallComplete(Caller)
  \/ CallReview(Caller)
  \/ CallFail(Caller)
  \/ Acquire(Caller)
  \/ GetNextJobBody(Caller)
  \/ MoveJobBody(Caller)
  \/ FailRetryBody(Caller)

SpecCtor == InitCtor /\ [][NextCtor]_vars

\* ------------------------------------------------------ failures of writes
\* _write_queue, lines 86-97: an exception raised while the file is written
\* is logged and swallowed, the file keeps its content and the caller goes
\* on.  Of the two writes of a move, those in "landed" take effect.
TwoWrites(f, path1, data1, path2, data2, landed) ==
  LET f1 == IF 1 \in landed THEN _write_queue(f, path1, data1) ELSE f
  IN IF 2 \in landed THEN _write_queue(f1, path2, data2) ELSE f1

\* what can go wrong in a body that writes two files: the process dies
\* between the two writes, or one write or both fail and the body goes on
Faults ==
  {[landed |-> {1}, crash |-> TRUE], [landed |-> {1}, crash |-> FALSE],
   [landed |-> {2}, crash |-> FALSE], [landed |-> {}, crash |-> FALSE]}

\* the process dies; the operating system drops its file locks
Crash(p) ==
  /\ pc' = [pc EXCEPT ![p] = "dead"]
  /\ locks' = Released(p)
  /\ UNCHANGED <<ret, held>>

\* get_next_job, lines 152-164, with a fault at lines 160-161
GetNextJobFault(p) ==
  /\ faults < MaxFaults
  /\ faults' = faults + 1
  /\ pc[p] = "get_lock2"
  /\ Free("processing")
  /\ _read_queue("queued") # <<>>
  /\ LET queued_jobs == _read_queue("queued")
         job_to_process == Started(FirstJob(queued_jobs))
         processing_jobs == Append(_read_queue("processing"), job_to_process)
     IN \E ft \in Faults :
          /\ files' = TwoWrites(files, "queued", AfterPop0(queued_jobs),
                                "processing", processing_jobs, ft.landed)
          /\ IF ft.crash THEN Crash(p)
             ELSE Return(p, "get_next_job", 0, "Job", job_to_process)
  /\ arg' = [arg EXCEPT ![p] = NoArg]
  /\ UNCHANGED <<snap, stale, max_retries, nadds, loop, track, detail, tmp, wr, stats, deqs, allRetry,
                 enq, retried, ahead>>

\* _move_job, lines 201-212, with a fault at lines 209-210
MoveJobFault(p) ==
  /\ faults < MaxFaults
  /\ faults' = faults + 1
  /\ pc[p] = "mv_lock2"
  /\ Free(arg[p].dest)
  /\ IndexOf(_read_queue("processing"), arg[p].id) # 0
  /\ LET from_jobs == _read_queue("processing")
         to_jobs == _read_queue(arg[p].dest)
         job_index == IndexOf(from_jobs, arg[p].id)
         moved_job == Moved(from_jobs[job_index], StatusOf(arg[p].dest))
     IN \E ft \in Faults :
          /\ files' = TwoWrites(files, "processing",
                                Pop(from_jobs, job_index),
                                arg[p].dest, Append(to_jobs, moved_job),
                                ft.landed)
          /\ IF ft.crash THEN Crash(p)
             ELSE Return(p, arg[p].op, arg[p].id, "True", NoJob)
  /\ arg' = [arg EXCEPT ![p] = NoArg]
  /\ UNCHANGED <<snap, stale, max_retries, nadds, loop, track, detail, tmp, wr, stats, deqs, allRetry,
                 enq, retried, ahead>>

\* mark_job_failed, lines 270-276, with a fault at lines 274-275
FailRetryFault(p) ==
  /\ faults < MaxFaults
  /\ faults' = faults + 1
  /\ pc[p] = "fr_lock2"
  /\ Free("queued")
  /\ IndexOf(_read_queue("processing"), arg[p].id) # 0
  /\ LET processing_jobs == _read_queue("processing")
         queued_jobs == _read_queue("queued")
         job_index == IndexOf(processing_jobs, arg[p].id)
     IN \E ft \in Faults :
          /\ files' = TwoWrites(files, "processing",
                                Pop(processing_jobs, job_index),
                                "queued", Requeued(queued_jobs, snap[p]),
                                ft.landed)
          /\ IF ft.crash THEN Crash(p)
             ELSE Return(p, "mark_job_failed", arg[p].id, "True", NoJob)
  /\ snap' = [snap EXCEPT ![p] = NoJob]
  /\ arg' = [arg EXCEPT ![p] = NoArg]
  /\ UNCHANGED <<stale, max_retries, nadds, loop, track, detail, tmp, wr, stats, deqs, allRetry, enq,
                 retried, ahead>>

\* Workers on a queue that holds distinct jobs, each added by an add_job call
\* that returned True; writes can fail and workers can die
InitCrash ==
  /\ \E o \in UNION {Orders(S) : S \in SUBSET Ids} :
       /\ files = [EmptyFiles EXCEPT !["queued"] =
                     [i \in 1..Len(o) |-> Job(o[i], "queued", 0)]]
       /\ enq = o
  /\ InitCalls(MaxN)
  /\ track = {}

NextCrash ==
  \/ \E w \in Workers : Step(w)
  \/ \E w \in Workers : WorkerGetNext(w)
  \/ \E w \in Workers : WorkerComplete(w)
  \/ \E w \in Workers : WorkerReview(w)
  \/ \E w \in Workers : WorkerFail(w)
  \/ \E w \in Workers : GetNextJobFault(w)
  \/ \E w \in Workers : MoveJobFault(w)
  \/ \E w \in Workers : FailRetryFault(w)

SpecCrash == InitCrash /\ [][NextCrash]_vars

\* One caller that uses the whole API on a queue directory in which one file
\* does not parse
InitCorrupt ==
  /\ \E path \in Paths : files = [EmptyFiles EXCEPT ![path] = Corrupt]
  /\ track = {}
  /\ InitLocal(MaxN)

SpecCorrupt == InitCorrupt /\ [][NextSeq]_vars

\* ------------------------------------------------- _write_queue, by steps
\* the lists a caller writes
Lists ==
  {[i \in 1..Len(o) |-> Job(o[i], "queued", 0)] :
     o \in UNION {Orders(S) : S \in SUBSET Ids}}

WritePcs == {"wq_open", "wq_dump", "wq_close", "wq_replace"}

\* what a _write_queue call does not touch
notio == <<arg, snap, held, stale, ret, max_retries, nadds, loop, track, detail, deqs,
           allRetry, enq, retried, ahead, stats, faults>>

\* an operation that holds the file's lock calls _write_queue(path, data)
WqStart(p) ==
  /\ pc[p] = "idle"
  /\ Free(wr.path)
  /\ locks' = [locks EXCEPT ![wr.path] = p]
  /\ \E data \in Lists :
       wr' = [wr EXCEPT !.data = data, !.old = _read_queue(wr.path)]
  /\ pc' = [pc EXCEPT ![p] = "wq_open"]
  /\ UNCHANGED <<files, tmp>>
  /\ UNCHANGED notio

\* (mutant: the file itself is opened for writing)
AfterOpenTemp_inplace(f, path) == [f EXCEPT ![path] = <<>>]

\* lines 85-87: it is the file <path>.tmp that open(..., 'w') creates or
\* truncates; the file at path is not touched
AfterOpenTemp(f, path) == f

WqOpen(p) ==
  /\ pc[p] = "wq_open"
  /\ tmp' = [tmp EXCEPT ![wr.path] = <<>>]
  /\ files' = AfterOpenTemp(files, wr.path)
  /\ pc' = [pc EXCEPT ![p] = "wq_dump"]
  /\ UNCHANGED <<locks, wr>>
  /\ UNCHANGED notio

\* line 88: json.dump writes the text piece by piece: a part of it is in the
\* temporary file ...
WqDump(p) ==
  /\ pc[p] = "wq_dump"
  /\ tmp' = [tmp EXCEPT ![wr.path] = Corrupt]
  /\ pc' = [pc EXCEPT ![p] = "wq_close"]
  /\ UNCHANGED <<files, locks, wr>>
  /\ UNCHANGED notio

\* ... and all of it when the with-block closes the file
WqClose(p) ==
  /\ pc[p] = "wq_close"
  /\ tmp' = [tmp EXCEPT ![wr.path] = wr.data]
  /\ pc' = [pc EXCEPT ![p] = "wq_replace"]
  /\ UNCHANGED <<files, locks, wr>>
  /\ UNCHANGED notio

\* line 89: os.replace moves the temporary file over the file, in one step
WqReplace(p) ==
  /\ pc[p] = "wq_replace"
  /\ files' = [files EXCEPT ![wr.path] = tmp[wr.path]]
  /\ tmp' = [tmp EXCEPT ![wr.path] = Missing]
  /\ pc' = [pc EXCEPT ![p] = "idle"]
  /\ locks' = Released(p)
  /\ UNCHANGED wr
  /\ UNCHANGED notio

\* lines 90-97: an exception at any of these lines is logged, and the
\* temporary file is removed if it is there and can be removed
WqError(p) ==
  /\ pc[p] \in WritePcs
  /\ \E removed \in BOOLEAN :
       tmp' = IF removed THEN [tmp EXCEPT ![wr.path] = Missing] ELSE tmp
  /\ pc' = [pc EXCEPT ![p] = "idle"]
  /\ locks' = Released(p)
  /\ UNCHANGED <<files, wr>>
  /\ UNCHANGED notio

\* the process dies at any of these lines
WqCrash(p) ==
  /\ pc[p] \in WritePcs
  /\ pc' = [pc EXCEPT ![p] = "dead"]
  /\ locks' = Released(p)
  /\ UNCHANGED <<files, tmp, wr>>
  /\ UNCHANGED notio

\* a new process takes the place of the dead one
Restart(p) ==
  /\ pc[p] = "dead"
  /\ pc' = [pc EXCEPT ![p] = "idle"]
  /\ UNCHANGED <<files, tmp, wr, locks>>
  /\ UNCHANGED notio

\* A caller that writes one of the files again and again
InitWrite ==
  /\ files = EmptyFiles
  /\ track = {}
  /\ locks = [l \in Paths |-> NoProc]
  /\ pc = [p \in Procs |-> "idle"]
  /\ arg = [p \in Procs |-> NoArg]
  /\ snap = [p \in Procs |-> NoJob]
  /\ held = [w \in Workers |-> NoJob]
  /\ stale = {}
  /\ ret = NoRet
  /\ max_retries = 0
  /\ nadds = 0
  /\ deqs = [id \in Ids |-> 0]
  /\ allRetry = TRUE
  /\ retried = FALSE
  /\ ahead = [id \in Ids |-> {}]
  /\ enq = <<>>
  /\ tmp = [path \in Paths |-> Missing]
  /\ \E path \in Paths : wr = [NoWrite EXCEPT !.path = path]
  /\ stats = NoStats
  /\ faults = 0
  /\ now = 1
  /\ call = NoCall
  /\ given = [id \in Ids |-> {}]
  /\ loop = [w \in Workers |-> NoLoop]
  /\ count = [l \in Paths |-> 0]

NextWrite ==
  \/ WqStart(Caller)
  \/ WqOpen(Caller)
  \/ WqDump(Caller)
  \/ WqClose(Caller)
  \/ WqReplace(Caller)
  \/ WqError(Caller)
  \/ WqCrash(Caller)
  \/ Restart(Caller)

SpecWrite == InitWrite /\ [][NextWrite]_vars

\* ------------------------------------------------------ full job records
\* The operations once more, on records with every field the code writes and
\* with the clock. Each call is one step of a caller that is alone: every lock
\* is free and is acquired at once, so a call runs from its first line to its
\* return without another process in between.
MaxTime == 3

\* keys of a result_details dictionary, failure reasons, scan thresholds
Keys == {"k1", "review_reason"}
Reasons == {"r1", "r2"}
Details == {NoDetails} \cup {[k \in {key} |-> "v"] : key \in Keys}
Thresholds == 0..(MaxTime - 2)

\* "if details:"
Truthy(details) == DOMAIN details # {}

\* dict.update: the keys of e are set in d
Update(d, e) ==
  [k \in DOMAIN d \cup DOMAIN e |-> IF k \in DOMAIN e THEN e[k] ELSE d[k]]

\* add_job, lines 116-118: the record as it is stored in queued. A key the
\* record does not have yet is written 0, "none" or the empty dictionary.
NewJob(id, t) ==
  [id |-> id, status |-> "queued", attempts |-> 0, added_timestamp |-> t,
   start_processing_timestamp |-> 0, end_processing_timestamp |-> 0,
   last_error_reason |-> "none", result_details |-> NoDetails]

\* get_next_job, lines 153-154
StartedAt(job, t) == [Started(job) EXCEPT !.start_processing_timestamp = t]

\* _move_job, lines 202-205: the stored result_details are replaced by the
\* passed ones when these are not empty
MovedWith(job, new_status, t, details) ==
  [Moved(job, new_status) EXCEPT
     !.end_processing_timestamp = t,
     !.result_details = IF Truthy(details) THEN details ELSE @]

\* mark_job_failed, lines 241-244: what the call writes into its local "job"
FailedCopy(job, reason, details) ==
  [job EXCEPT !.last_error_reason = reason,
              !.result_details = IF Truthy(details)
                                 THEN Update(@, details) ELSE @]

\* mark_job_needs_review, lines 294-296
ReviewDetails(reason, details) ==
  Update([k \in {"review_reason"} |-> reason], details)

\* (mutant: >= instead of >)
IsStale_ge(job, t, stale_threshold_seconds) ==
  /\ job.start_processing_timestamp # 0
  /\ t - job.start_processing_timestamp >= stale_threshold_seconds

\* check_stale_processing_jobs, line 334
IsStale(job, t, stale_threshold_seconds) ==
  /\ job.start_processing_timestamp # 0
  /\ t - job.start_processing_timestamp > stale_threshold_seconds

\* check_stale_processing_jobs, lines 332-335
StaleIds(processing_jobs, t, stale_threshold_seconds) ==
  {processing_jobs[i].id :
     i \in {k \in 1..Len(processing_jobs) :
              IsStale(processing_jobs[k], t, stale_threshold_seconds)}}

\* what these calls do not touch
rest == <<arg, snap, max_retries, track, deqs, allRetry, enq, retried,
          ahead, io, count>>

Alone(p) == pc[p] = "idle" /\ \A l \in Paths : Free(l)

AddJob(p, id) ==
  /\ Alone(p)
  /\ LET job_data == NewJob(id, now)
         queue == _read_queue("queued")
     IN IF IsDuplicate(id, queue)
        THEN /\ Return(p, "add_job", id, "False", NoJob)
             /\ UNCHANGED files
        ELSE /\ files' = _write_queue(files, "queued",
                                      Append(queue, job_data))
             /\ Return(p, "add_job", id, "True", NoJob)
  /\ UNCHANGED rest

GetNextJob(p) ==
  /\ Alone(p)
  /\ LET queued_jobs == _read_queue("queued")
         processing_jobs == _read_queue("processing")
     IN IF queued_jobs = <<>>
        THEN /\ Return(p, "get_next_job", 0, "None", NoJob)
             /\ UNCHANGED files
        ELSE LET job == StartedAt(FirstJob(queued_jobs), now)
             IN /\ files' = _write_queue(
                              _write_queue(files, "queued",
                                           AfterPop0(queued_jobs)),
                              "processing", Append(processing_jobs, job))
                /\ Return(p, "get_next_job", 0, "Job", job)
  /\ UNCHANGED rest

MoveJob(p, op, id, dest, details) ==
  /\ Alone(p)
  /\ LET from_jobs == _read_queue("processing")
         to_jobs == _read_queue(dest)
         job_index == IndexOf(from_jobs, id)
     IN IF job_index = 0
        THEN /\ Return(p, op, id, "False", NoJob)
             /\ UNCHANGED files
        ELSE LET moved_job == MovedWith(from_jobs[job_index], StatusOf(dest),
                                        now, details)
             IN /\ files' = _write_queue(
                              _write_queue(files, "processing",
                                           Pop(from_jobs, job_index)),
                              dest, Append(to_jobs, moved_job))
                /\ Return(p, op, id, "True", NoJob)
  /\ UNCHANGED rest

MarkJobComplete(p, id, details) ==
  MoveJob(p, "mark_job_complete", id, "completed", details)

MarkJobNeedsReview(p, id, reason, details) ==
  MoveJob(p, "mark_job_needs_review", id, "review",
          ReviewDetails(reason, details))

MarkJobFailed(p, id, reason, details, retry) ==
  LET processing_jobs == _read_queue("processing")
      job_index == IndexOf(processing_jobs, id)
  IN IF job_index = 0
     THEN /\ Alone(p)
          /\ Return(p, "mark_job_failed", id, "False", NoJob)
          /\ UNCHANGED <<files, rest>>
     ELSE LET current_attempts == processing_jobs[job_index].attempts
              job == FailedCopy(processing_jobs[job_index], reason, details)
          IN IF ShouldRetry(retry, current_attempts, max_retries)
             THEN LET retry_job ==
                        Update(processing_jobs[job_index],
                               RetryCopy(job, current_attempts))
                  IN /\ Alone(p)
                     /\ files' = _write_queue(
                                   _write_queue(files, "processing",
                                                Pop(processing_jobs,
                                                    job_index)),
                                   "queued",
                                   Requeued(_read_queue("queued"),
                                            retry_job))
                     /\ Return(p, "mark_job_failed", id, "True", NoJob)
                     /\ UNCHANGED rest
             ELSE MoveJob(p, "mark_job_failed", id, "failed",
                          job.result_details)

CheckStale(p, stale_threshold_seconds) ==
  /\ Alone(p)
  /\ stale' = StaleIds(_read_queue("processing"), now,
                       stale_threshold_seconds)
  /\ Return(p, "check_stale_processing_jobs", 0, "list", NoJob)
  /\ UNCHANGED <<files, rest>>

\* the caller: the call, its reason or threshold, and the time it is made
\* are noted
Called(op, id, reason, threshold) ==
  call' = [op |-> op, id |-> id, reason |-> reason, threshold |-> threshold,
           at |-> now]

\* the keys passed to a call that returned True are noted for the job
Supplied(id, details) ==
  given' = IF ret'.val = "True"
           THEN [given EXCEPT ![id] = @ \cup DOMAIN details]
           ELSE given

FullAdd(p) ==
  /\ nadds < MaxAdds
  /\ nadds' = nadds + 1
  /\ \E id \in Ids :
       /\ AddJob(p, id)
       /\ Called("add_job", id, "none", 0)
  /\ UNCHANGED <<stale, now, given, loop>>

FullGetNext(p) ==
  /\ GetNextJob(p)
  /\ Called("get_next_job", 0, "none", 0)
  /\ UNCHANGED <<stale, nadds, loop, now, given>>

FullComplete(p, dets) ==
  /\ \E id \in Ids, details \in dets :
       /\ MarkJobComplete(p, id, details)
       /\ Called("mark_job_complete", id, "none", 0)
       /\ Supplied(id, details)
  /\ UNCHANGED <<stale, nadds, loop, now>>

FullReview(p, reasons, dets) ==
  /\ \E id \in Ids, reason \in reasons, details \in dets :
       /\ MarkJobNeedsReview(p, id, reason, details)
       /\ Called("mark_job_needs_review", id, reason, 0)
       /\ Supplied(id, details)
  /\ UNCHANGED <<stale, nadds, loop, now>>

FullFail(p, reasons, dets) ==
  /\ \E id \in Ids, reason \in reasons, details \in dets, retry \in BOOLEAN :
       /\ MarkJobFailed(p, id, reason, details, retry)
       /\ Called("mark_job_failed", id, reason, 0)
       /\ Supplied(id, details)
  /\ UNCHANGED <<stale, nadds, loop, now>>

FullScan(p) ==
  /\ \E threshold \in Thresholds :
       /\ CheckStale(p, threshold)
       /\ Called("check_stale_processing_jobs", 0, "none", threshold)
  /\ UNCHANGED <<nadds, loop, now, given>>

\* time passes between two calls
Tick ==
  /\ now < MaxTime
  /\ now' = now + 1
  /\ UNCHANGED <<files, locks, pc, held, stale, ret, nadds, loop, call, given,
                 rest>>

InitFull ==
  /\ files = EmptyFiles
  /\ track = {}
  /\ InitLocal(MaxN)
  /\ max_retries = MaxN

\* calls with any reason and any details, at one time
NextDet ==
  \/ FullAdd(Caller)
  \/ FullGetNext(Caller)
  \/ FullComplete(Caller, Details)
  \/ FullReview(Caller, Reasons, Details)
  \/ FullFail(Caller, Reasons, Details)

SpecDet == InitFull /\ [][NextDet]_vars

\* calls with one reason and no details, as time passes, and the stale scan
NextTime ==
  \/ Tick
  \/ FullAdd(Caller)
  \/ FullGetNext(Caller)
  \/ FullComplete(Caller, {NoDetails})
  \/ FullReview(Caller, {"r1"}, {NoDetails})
  \/ FullFail(Caller, {"r1"}, {NoDetails})
  \/ FullScan(Caller)

SpecTime == InitFull /\ [][NextTime]_vars

\* ------------------------------------------------------------ properties
AllPlaces == {<<path, i>> : path \in Paths, i \in 1..NumJobs + MaxAdds}

\* the places (file, index) where a record with the id is stored
PlacesOf(id) ==
  {pl \in AllPlaces : /\ pl[2] <= Len(files[pl[1]])
                      /\ files[pl[1]][pl[2]].id = id}

RecordAt(pl) == files[pl[1]][pl[2]]

\* C1: no job id is present in more than one of the five partitions, nor
\* more than once inside one partition.
C1_UniqueIds == \A id \in Ids : Cardinality(PlacesOf(id)) <= 1

\* C2: concurrent get_next_job calls of different workers never return a
\* record with the same id: no id is returned twice.
C2_NoIdReturnedTwice == \A id \in Ids : deqs[id] <= 1

C2_Witness ==
  /\ held["w1"] # NoJob /\ held["w2"] # NoJob
  /\ \A id \in Ids : deqs[id] = 1

\* C3: a job is owned by at most one worker: while a worker holds the job
\* that get_next_job returned to it (until its complete/fail/review call
\* returns), no other worker holds a job with the same id.
C3_OneOwner ==
  \A w1, w2 \in Workers :
    (w1 # w2 /\ held[w1] # NoJob /\ held[w2] # NoJob)
      => held[w1].id # held[w2].id

\* C4: when every mark_job_failed call passes retry=True and the same
\* max_retries = N, get_next_job returns a job at most N + 1 times.
C4_RetryBudget ==
  allRetry => \A id \in Ids : deqs[id] <= max_retries + 1

\* the number of stored records with the given id and attempts
CountOf(f, id, a) ==
  Cardinality({pl \in AllPlaces : /\ pl[2] <= Len(f[pl[1]])
                                  /\ f[pl[1]][pl[2]].id = id
                                  /\ f[pl[1]][pl[2]].attempts = a})

Attempts == 0..(RetryMaxN + 2)

AttemptsOf(id) == RecordAt(CHOOSE pl \in PlacesOf(id) : TRUE).attempts

C6_AttemptsMonotone ==
  [][\A id \in Ids :
       (Cardinality(PlacesOf(id)) = 1 /\ Cardinality(PlacesOf(id))' = 1)
         => AttemptsOf(id)' >= AttemptsOf(id)]_vars

\* ---- one caller, one call after the other (SpecSeq)
TimesAdded(id) == Cardinality({i \in 1..Len(enq) : enq[i] = id})

InFile(id, path) == \E pl \in PlacesOf(id) : pl[1] = path

\* a mark_job_failed call for the id is made in this step
FailCalled(id) ==
  /\ pc[Caller] = "idle"
  /\ \/ /\ pc'[Caller] # "idle"
        /\ arg'[Caller].op = "mark_job_failed" /\ arg'[Caller].id = id
     \/ /\ pc'[Caller] = "idle" /\ ret' # ret
        /\ ret'.op = "mark_job_failed" /\ ret'.id = id

\* the rounds of get_next_job and mark_job_failed(retry=True) on a job that
\* was added once: k rounds leave it in queued with attempts k (k <= N), the
\* round after the last retry leaves it in failed after N + 1 dequeues;
\* inFailed is the attempts it has there
RetryRounds(id, inFailed) ==
  (allRetry /\ TimesAdded(id) = 1) =>
    /\ InFile(id, "queued") =>
         AttemptsOf(id) = deqs[id] /\ deqs[id] <= max_retries
    /\ InFile(id, "processing") =>
         AttemptsOf(id) = deqs[id] - 1 /\ deqs[id] <= max_retries + 1
    /\ InFile(id, "failed") =>
         deqs[id] = max_retries + 1 /\ AttemptsOf(id) = inFailed

FailOfFailedIsRefused(id) ==
  (FailCalled(id) /\ ~InFile(id, "processing"))
    => /\ pc'[Caller] = "idle"
       /\ ret'.val = "False"
       /\ files' = files

RECURSIVE Sum(_, _)
Sum(f, S) ==
  IF S = {} THEN 0
  ELSE LET x == CHOOSE x \in S : TRUE IN f[x] + Sum(f, S \ {x})

\* the number of jobs get_next_job has returned
Dequeued == Sum(deqs, Ids)

DistinctIds(q) == \A i, j \in 1..Len(q) : i # j => q[i] # q[j]

\* a get_next_job call of the caller returns in this step
GetNextReturns == pc[Caller] = "get_lock2" /\ pc'[Caller] = "idle"

\* C8: without concurrency, when distinct jobs were added and no retry
\* intervened, get_next_job returns them in the order they were added, and
\* after the last one it returns None and changes no partition.
C8_Fifo ==
  [][(GetNextReturns /\ ~retried /\ DistinctIds(enq)) =>
       IF Dequeued < Len(enq)
       THEN ret'.val = "Job" /\ ret'.job.id = enq[Dequeued + 1]
       ELSE ret'.val = "None" /\ files' = files]_vars

C8_Witness ==
  /\ ~retried /\ Len(enq) = MaxAdds /\ DistinctIds(enq)
  /\ Dequeued = Len(enq)
  /\ ret.op = "get_next_job" /\ ret.val = "None"

\* a mark_job_failed call of the caller moves a job back to queued in this
\* step
RequeueStep ==
  /\ pc[Caller] = "fr_lock2" /\ pc'[Caller] = "idle"
  /\ ret'.val = "True"

\* C9: a job re-queued by mark_job_failed(retry=True) is appended at the tail
\* of queued, behind every record that is there, and get_next_job takes the
\* head; so (an id naming one job when it was added once) the re-queued job
\* is returned only after every job that was in queued when it was
\* re-queued.
C9_RequeuedAtTail ==
  [][/\ RequeueStep =>
          /\ Len(files'["queued"]) = Len(files["queued"]) + 1
          /\ SubSeq(files'["queued"], 1, Len(files["queued"]))
               = files["queued"]
          /\ files'["queued"][Len(files'["queued"])].id = arg[Caller].id
     /\ (GetNextReturns /\ ret'.val = "Job") =>
          /\ ret'.job.id = files["queued"][1].id
          /\ files'["queued"] = Tail(files["queued"])
          /\ DistinctIds(enq) => ahead[ret'.job.id] = {}]_vars

\* B is returned while the re-queued A waits behind it
C9_Witness ==
  /\ ret.op = "get_next_job" /\ ret.val = "Job" /\ ret.job.attempts = 0
  /\ files["queued"] # <<>>
  /\ files["queued"][1].attempts = 1 /\ deqs[files["queued"][1].id] = 1
  /\ files["queued"][1].id # ret.job.id

\* C10: every record's status field names the partition that holds it.
C10_StatusMatchesPartition ==
  \A path \in Paths : \A i \in 1..Len(files[path]) :
    files[path][i].status = StatusOf(path)

C10_Witness ==
  /\ files["review"] # <<>>
  /\ files["queued"] # <<>> /\ files["queued"][1].attempts = 1

Terminal == {"completed", "failed", "review"}

SameExcept(f, g, S) == \A path \in Paths \ S : f[path] = g[path]

\* add_job creates a record in queued
Created(f, g) ==
  /\ SameExcept(f, g, {"queued"})
  /\ Len(g["queued"]) = Len(f["queued"]) + 1
  /\ SubSeq(g["queued"], 1, Len(f["queued"])) = f["queued"]

\* the head of queued goes to the end of processing
QueuedToProcessing(f, g) ==
  /\ SameExcept(f, g, {"queued", "processing"})
  /\ f["queued"] # <<>>
  /\ g["queued"] = Tail(f["queued"])
  /\ Len(g["processing"]) = Len(f["processing"]) + 1
  /\ SubSeq(g["processing"], 1, Len(f["processing"])) = f["processing"]
  /\ g["processing"][Len(g["processing"])].id = f["queued"][1].id

\* one record of processing goes to the end of the partition dest
ProcessingTo(f, g, dest) ==
  /\ SameExcept(f, g, {"processing", dest})
  /\ \E i \in 1..Len(f["processing"]) :
       /\ g["processing"] = SubSeq(f["processing"], 1, i - 1)
                               \o SubSeq(f["processing"], i + 1,
                                         Len(f["processing"]))
       /\ Len(g[dest]) = Len(f[dest]) + 1
       /\ SubSeq(g[dest], 1, Len(f[dest])) = f[dest]
       /\ g[dest][Len(g[dest])].id = f["processing"][i].id

\* C11: every change of the partitions is the creation of a record in
\* queued, the move queued -> processing of get_next_job, or a move
\* processing -> completed, failed, review or queued; a record that is in
\* completed, failed or review stays there unchanged, at its place.
C11_Transitions ==
  [][/\ \/ files' = files
        \/ Created(files, files')
        \/ QueuedToProcessing(files, files')
        \/ \E dest \in Terminal \cup {"queued"} :
             ProcessingTo(files, files', dest)
     /\ \A path \in Terminal :
          /\ Len(files'[path]) >= Len(files[path])
          /\ SubSeq(files'[path], 1, Len(files[path])) = files[path]]_vars

\* a job is in completed while later operations have moved another job to
\* failed
C11_Witness ==
  /\ files["completed"] # <<>> /\ files["failed"] # <<>>
  /\ \A l \in Paths : Free(l)

\* C12: once add_job has returned True for an id, every state that a caller
\* can observe (no operation holds a lock) has the id in exactly one
\* partition, also when a process dies or a write fails between the two
\* writes of a move.
C12_NeverLost ==
  (\A l \in Paths : Free(l)) =>
    \A i \in 1..Len(enq) : Cardinality(PlacesOf(enq[i])) = 1

\* C13: a file whose content does not parse is read as the empty list and is
\* left as it is by every operation: no step replaces its content.
C13_CorruptPreserved ==
  [][\A path \in Paths :
       files[path] = Corrupt =>
         /\ _read_queue(path) = <<>>
         /\ files'[path] = Corrupt]_vars

\* C14: wherever the process dies inside _write_queue, and at every moment
\* of the call, a read of the file gives the whole old list or the whole new
\* list; when a temporary file is left behind and the swap was not made the
\* read gives the old list.
C14_AtomicWrite ==
  /\ _read_queue(wr.path) \in {wr.old, wr.data}
  /\ (pc[Caller] = "dead" /\ tmp[wr.path] # Missing)
       => _read_queue(wr.path) = wr.old

\* the process died while a part of the new list was in the temporary file
C14_Witness ==
  /\ pc[Caller] = "dead"
  /\ tmp[wr.path] = Corrupt
  /\ wr.old # <<>> /\ wr.data # <<>> /\ wr.old # wr.data
  /\ files[wr.path] = wr.old

\* ---- one caller, while the maintenance caller holds locks (SpecStats)
\* a call of the caller ends in this step because a lock it needs is held by
\* another process: at its first lock, or at a later one
CallerTimesOut ==
  /\ pc'[Caller] = "idle"
  /\ \/ /\ pc[Caller] \in LockPcs
        /\ ~Free(Wanted(Caller))
     \/ /\ pc[Caller] = "idle"
        /\ pc'[Maint] = pc[Maint] /\ arg'[Maint] = arg[Maint]
        /\ ret'.op # "none"
        /\ ~Free(FirstLockOf(ret'.op))

\* C15: a call that cannot get a lock changes no file: the step in which it
\* gives up leaves the five files as they are, and so does every step of a
\* call before its last one (the steps that acquire the earlier locks and
\* the first phase of mark_job_failed).
C15_TimeoutChangesNothing ==
  [][(pc'[Caller] # "idle" \/ CallerTimesOut) => files' = files]_vars

\* mark_job_failed has given up while its job is still in processing and
\* the maintenance caller holds the queued lock
C15_Witness ==
  /\ pc[Caller] = "idle"
  /\ ret.op = "mark_job_failed" /\ ret.val = "False"
  /\ ret.id \in IdsOf(files["processing"])
  /\ files["processing"][1].attempts < max_retries
  /\ locks["queued"] = Maint

\* C16: the value a call returns when it gives up on a lock is not one of
\* the values the operations return otherwise: None for an empty queue,
\* False for a duplicate or a job that is not in processing, [].
C16_TimeoutDistinct ==
  [][CallerTimesOut => ret'.val \notin {"None", "False", "[]"}]_vars

\* ---- concurrent workers and maintenance caller (SpecWM)
\* the process is inside an operation that has read a file and has not yet
\* made its last write: mark_job_failed after its first with-block
InOperation(p) ==
  \/ pc[p] \in {"fr_lock1", "fr_lock2"}
  \/ pc[p] \in {"mv_lock1", "mv_lock2"} /\ arg[p].op = "mark_job_failed"

\* C17: the operations are serialised: at any time at most one operation is
\* between its first read of a file and its last write.
C17_Serialised ==
  Cardinality({p \in Procs : InOperation(p)}) <= 1

\* C18: no two operations wait for each other's lock: there are no two
\* processes of which each holds the lock the other is waiting for.
C18_NoLockCycle ==
  ~ \E p, q \in Procs :
      /\ p # q
      /\ pc[p] \in LockPcs /\ pc[q] \in LockPcs
      /\ locks[Wanted(p)] = q
      /\ locks[Wanted(q)] = p

\* C19: every call returns: a process that is inside an operation (waiting
\* for a lock, or between two steps of get_queue_stats) is eventually out of
\* it, with the operation's result or because it gave up on the lock.
C19_EveryCallReturns ==
  \A p \in Workers \cup {Maint} : (pc[p] # "idle") ~> (pc[p] = "idle")

\* two workers wait for each other's lock, and the maintenance caller waits
\* inside get_queue_stats
C19_Witness ==
  /\ pc["w1"] = "fr_lock2" /\ pc["w2"] = "get_lock2"
  /\ pc[Maint] = "st_lock" /\ arg[Maint].dest = "processing"

\* ---- writers and locks
\* the process that takes the step (add_job is one step of the producer)
Writer(p) ==
  \/ pc'[p] # pc[p]
  \/ p = Producer /\ nadds' # nadds

\* the process holds the lock of the path, or acquires it in this step as the
\* last lock of its with-block
LockedFor(p, path) ==
  \/ locks[path] = p
  \/ /\ pc[p] = "idle"
     /\ path = "queued" /\ Free("queued")
  \/ /\ pc[p] \in {"get_lock2", "mv_lock2", "fr_lock2"}
     /\ path = Wanted(p) /\ Free(path)

\* C20: a file is written only by a process that holds the file's lock,
\* the writes of __init__ included.
C20_WritesUnderLock ==
  [][\A path \in Paths :
       files'[path] # files[path] =>
         \E p \in Procs : Writer(p) /\ LockedFor(p, path)]_vars

\* what the unlocked write costs: no state in which the producer's add_job
\* has stored a job and the write of the other process's __init__ has emptied
\* the queued file again (violated as well)
NoJobWipedByInit ==
  ~ /\ nadds = 1
    /\ pc[Caller] = "ctor_check" /\ arg[Caller].dest = "processing"
    /\ files["queued"] = <<>>

\* ---- refusals (SpecSeq)
\* an add_job call of the caller is made in this step
AddCalled == nadds' = nadds + 1 /\ ret'.op = "add_job"

\* C21: add_job with an id that is in any of the five files returns False
\* and leaves every file unchanged.
C21_DuplicateAnywhere ==
  [][(AddCalled /\ PlacesOf(ret'.id) # {})
       => ret'.val = "False" /\ files' = files]_vars

\* a call of mark_job_complete, mark_job_failed or mark_job_needs_review
\* returns in this step
FinalisingReturns ==
  /\ pc'[Caller] = "idle"
  /\ pc[Caller] \in {"idle", "mv_lock2", "fr_lock2"}
  /\ ret'.op \in {"mark_job_complete", "mark_job_failed",
                 "mark_job_needs_review"}
  /\ pc[Caller] = "idle" => (nadds' = nadds /\ ret' # ret)

\* C22: mark_job_complete, mark_job_failed and mark_job_needs_review called
\* with an id that is not in processing return False and leave the five
\* files unchanged.
C22_NotInProcessing ==
  [][(FinalisingReturns /\ ~InFile(ret'.id, "processing"))
       => ret'.val = "False" /\ files' = files]_vars

\* the second mark_job_complete on a job that is in completed was refused
C22_Witness ==
  /\ ret.op = "mark_job_complete" /\ ret.val = "False"
  /\ InFile(ret.id, "completed")
  /\ files["processing"] # <<>>

\* ---- stored fields (SpecDet, SpecTime)
\* the one record of the id, for an id that is stored exactly once
Only(id) == RecordAt(CHOOSE pl \in PlacesOf(id) : TRUE)

Once(id) == Cardinality(PlacesOf(id)) = 1

\* C23: result_details is merged, never replaced: the stored record of a job
\* has every key that was passed in details by the mark_job_failed,
\* mark_job_complete and mark_job_needs_review calls made on it.
C23_ResultMerged ==
  \A id \in Ids :
    Once(id) => given[id] \subseteq DOMAIN Only(id).result_details

\* the mark_job_failed call that just returned True
FailSucceeded == ret.op = "mark_job_failed" /\ ret.val = "True"

\* C24: when mark_job_failed returns True, the stored record of the job has
\* last_error_reason = reason, in queued as well as in failed.
C24_LastErrorStored ==
  (FailSucceeded /\ Once(ret.id))
    => Only(ret.id).last_error_reason = call.reason

\* C25: no record in queued carries a start or an end processing timestamp.
C25_QueuedHasNoTimes ==
  \A i \in 1..Len(files["queued"]) :
    /\ files["queued"][i].start_processing_timestamp = 0
    /\ files["queued"][i].end_processing_timestamp = 0

\* C26: queued is ordered by non-decreasing added_timestamp, so that
\* get_next_job returns the record with the smallest one.
C26_QueuedByCreation ==
  \A i, k \in 1..Len(files["queued"]) :
    i < k => files["queued"][i].added_timestamp
               <= files["queued"][k].added_timestamp

\* C27: after mark_job_needs_review(id, reason, details) returned True the
\* record is in needs_review and carries the reason, as its
\* last_error_reason (or, read loosely, as the review_reason of its result),
\* whatever keys details has.
C27_ReviewReasonStored ==
  (ret.op = "mark_job_needs_review" /\ ret.val = "True" /\ Once(ret.id))
    => /\ InFile(ret.id, "review")
       /\ \/ Only(ret.id).last_error_reason = call.reason
          \/ /\ "review_reason" \in DOMAIN Only(ret.id).result_details
             /\ Only(ret.id).result_details["review_reason"] = call.reason

\* the stale scan is the last call and no time has passed since it returned
ScanJustReturned ==
  call.op = "check_stale_processing_jobs" /\ call.at = now

\* C28: check_stale_processing_jobs(threshold) returns exactly the ids of
\* the records in processing with now - start_processing_timestamp strictly
\* greater than the threshold.
C28_StaleExactly ==
  ScanJustReturned
    => stale = {id \in Ids :
                  \E i \in 1..Len(files["processing"]) :
                    /\ files["processing"][i].id = id
                    /\ now - files["processing"][i].start_processing_timestamp
                         > call.threshold}

\* a scan that reported one job and did not report another one whose age
\* was exactly the threshold
C28_Witness ==
  /\ ScanJustReturned
  /\ stale # {}
  /\ \E i \in 1..Len(files["processing"]) :
       /\ files["processing"][i].id \notin stale
       /\ now - files["processing"][i].start_processing_timestamp
            = call.threshold

\* ---- the read-only calls (SpecMon)
\* get_queue_stats writes the entry of the path in this step
EntryWritten(path) == stats'[path] # stats[path] /\ stats'[path] # -2

\* get_queue_stats returns in this step
StatsReturns ==
  pc[Maint] \in {"st_lock", "st_read"} /\ pc'[Maint] = "idle"

\* C29: get_queue_stats reports for each of the five files the number of
\* records in it, and -1 for exactly the files whose lock it could not
\* acquire, with the true counts of the others.
C29_StatsCounts ==
  [][/\ \A path \in Paths :
          EntryWritten(path)
            => /\ path = arg[Maint].dest
               /\ stats'[path] = IF locks[path] \in {NoProc, Maint}
                                 THEN Len(files[path])
                                 ELSE -1
     /\ StatsReturns => \A path \in Paths : stats'[path] # -2]_vars

\* statistics were returned with -1 for a file that the worker had locked
\* and with the count of a file that holds records
C29_Witness ==
  /\ pc[Maint] = "idle"
  /\ \E path \in Paths : stats[path] = -1
  /\ \E path \in Paths : stats[path] > 0
  /\ \A path \in Paths : stats[path] # -2

\* the monitor takes a step of get_queue_stats or of the stale scan
MonitorStep ==
  \/ pc'[Maint] # pc[Maint]
  \/ arg'[Maint] # arg[Maint]
  \/ stats' # stats
  \/ stale' # stale

\* C30: check_stale_processing_jobs and get_queue_stats are read-only: no
\* step of either changes any of the five files, whatever is returned.
C30_ReadOnly == [][MonitorStep => files' = files]_vars

\* the scan has returned a job and the statistics have been returned while
\* records are stored
C30_Witness ==
  /\ pc[Maint] = "idle"
  /\ stale # {}
  /\ \A path \in Paths : stats[path] # -2
  /\ files["processing"] # <<>>

\* ---- the service loop (SpecLoop)
\* C31: in the service loop every job returned by get_next_job is followed
\* by exactly one call among mark_job_complete, mark_job_failed and
\* mark_job_needs_review for it before the loop dequeues again, on every
\* path through the loop.
C31_OneFinalisingCall ==
  [][\A w \in Workers :
       /\ loop'[w].calls <= 1
       /\ (loop[w].job # NoJob /\ loop'[w].job = NoJob)
            => loop[w].calls = 1]_vars

\* the mark_job_failed call of the interrupted loop of w moves its job in
\* this step
InterruptMoves(w) ==
  /\ loop[w].at = "stopped"
  /\ pc[w] # "idle" /\ pc'[w] = "idle"
  /\ files' # files

\* C36: when the loop is interrupted while its job is in processing, the
\* job is moved back to queued whatever its attempts are, never to failed.
C36_InterruptRequeues ==
  [][\A w \in Workers :
       InterruptMoves(w)
         => /\ files'["failed"] = files["failed"]
            /\ Len(files'["queued"]) = Len(files["queued"]) + 1]_vars

FailMoves(p) ==
  /\ arg[p].op = "mark_job_failed"
  /\ pc[p] \in {"fr_lock2", "mv_lock2"}
  /\ pc'[p] = "idle"
  /\ files' # files

\* the record of the id as it is in processing
InProcessing(id) ==
  files["processing"][CHOOSE i \in 1..Len(files["processing"]) :
                        files["processing"][i].id = id]

\* C33: mark_job_failed is atomic: its decision between retry and failed
\* and the attempts it writes are those of the record as it is in processing
\* at the moment of the move.
C33_FailUsesCurrentRecord ==
  [][\A p \in Procs :
       FailMoves(p) =>
         LET cur == InProcessing(arg[p].id)
             again == arg[p].retry /\ cur.attempts < max_retries
         IN IF pc[p] = "fr_lock2"
            THEN /\ again
                 /\ files'["queued"][Len(files'["queued"])].attempts
                      = cur.attempts + 1
            ELSE ~again]_vars

\* ---- failed writes (SpecCrash)
\* a call of w in which a write failed returns in this step
ReturnsAfterFailedWrite(w) ==
  /\ faults' = faults + 1
  /\ pc[w] \in {"get_lock2", "mv_lock2", "fr_lock2"}
  /\ pc'[w] = "idle"

\* C34: an operation reports success only if each of its writes took
\* effect: when a write fails the call returns False (get_next_job returns
\* None) and the files are as before the call.
C34_FailedWriteReported ==
  [][\A w \in Workers :
       ReturnsAfterFailedWrite(w)
         => /\ files' = files
            /\ held'[w] = NoJob]_vars

\* ---- the running service (SpecServe)
\* C35: every job that a worker of the running service dequeues leaves
\* processing in the end, also when the worker's finalising call does not
\* get its locks within the timeout.
C35_LeavesProcessing ==
  \A id \in Ids : InFile(id, "processing") ~> ~InFile(id, "processing")

\* ---- one get_queue_stats call against the moves of a worker (SpecMon)
RECURSIVE SumOver(_, _)
SumOver(f, S) ==
  IF S = {} THEN 0
  ELSE LET x == CHOOSE y \in S : TRUE IN f[x] + SumOver(f, S \ {x})

\* get_queue_stats has returned its five counts, none of them -1
StatsComplete ==
  pc[Maint] = "idle" /\ \A path \in Paths : stats[path] >= 0

\* C37: the counts of one get_queue_stats call are a consistent snapshot:
\* when no lock timed out their sum is the number of records in the store
\* at one instant of the call, which, where jobs are only moved, is the
\* number of jobs.
C37_StatsSnapshot == StatsComplete => SumOver(stats, Paths) = NumJobs

TypeOK ==
  /\ \A path \in Paths : \A i \in 1..Len(_read_queue(path)) :
       files[path][i].id \in Ids
  /\ \A l \in Paths : locks[l] \in Procs \cup {NoProc}

====
